---------------------------- MODULE Spec2Model ----------------------------
(***************************************************************************)
(* Model of src/error.rs of supabase-auth-rs: the Error enum, the          *)
(* SupabaseHTTPError record, its serde (de)serialization and its Display.  *)
(*                                                                         *)
(* Representation.                                                         *)
(*   - A Rust String, and every text that is written, is a sequence of     *)
(*     characters.  A character is a one-character string; a character     *)
(*     that has no string literal (the control characters other than tab,  *)
(*     line feed, form feed and carriage return, the grave accent and DEL) *)
(*     is written by the name of its code point, "U+0008".  Characters are *)
(*     ASCII.  Str reads a text as a string, for the properties.           *)
(*   - Option<T> is [some |-> FALSE] or [some |-> TRUE, v |-> x].          *)
(*   - A JSON value is a record tagged by t, with one payload field per    *)
(*     kind (b, n, s, a, o).  Numbers are integers in the i32 range, so    *)
(*     the range check of an i32 field never applies.                      *)
(*   - A serde_json::Value is a JSON value whose objects are maps: one     *)
(*     entry per key, in key order (JObj).                                 *)
(*   - The wire holds one JSON value as it is written: an object is the    *)
(*     sequence of its entries in textual order, repeated keys included    *)
(*     (WObj).  Its text is compact, on one line, without white space;     *)
(*     the positions in the parse errors are positions in that text.       *)
(***************************************************************************)
EXTENDS Integers, Sequences, FiniteSets, TLC

VARIABLES self, wire, parsed, foreign, err, cause, text, last

vars == <<self, wire, parsed, foreign, err, cause, text, last>>

\* Nesting depth of the serde_json::Value inputs.
MaxDepth == 1

----------------------------------------------------------------------------
(* Option<T> *)

None == [some |-> FALSE]

Some(x) == [some |-> TRUE, v |-> x]

----------------------------------------------------------------------------
(* Text *)

\* The ASCII characters, by code point.
Ascii ==
    <<"U+0000", "U+0001", "U+0002", "U+0003", "U+0004", "U+0005", "U+0006",
      "U+0007", "U+0008", "\t", "\n", "U+000B", "\f", "\r", "U+000E",
      "U+000F", "U+0010", "U+0011", "U+0012", "U+0013", "U+0014", "U+0015",
      "U+0016", "U+0017", "U+0018", "U+0019", "U+001A", "U+001B", "U+001C",
      "U+001D", "U+001E", "U+001F", " ", "!", "\"", "#", "$", "%", "&", "'",
      "(", ")", "*", "+", ",", "-", ".", "/", "0", "1", "2", "3", "4", "5",
      "6", "7", "8", "9", ":", ";", "<", "=", ">", "?", "@", "A", "B", "C",
      "D", "E", "F", "G", "H", "I", "J", "K", "L", "M", "N", "O", "P", "Q",
      "R", "S", "T", "U", "V", "W", "X", "Y", "Z", "[", "\\", "]", "^", "_",
      "U+0060", "a", "b", "c", "d", "e", "f", "g", "h", "i", "j", "k", "l",
      "m", "n", "o", "p", "q", "r", "s", "t", "u", "v", "w", "x", "y", "z",
      "{", "|", "}", "~", "U+007F">>

CharCode(c) == CHOOSE i \in 0..127 : Ascii[i + 1] = c

RECURSIVE Str(_)
Str(s) == IF s = << >> THEN "" ELSE Head(s) \o Str(Tail(s))

Digit == <<"0", "1", "2", "3", "4", "5", "6", "7", "8", "9">>

HexDigit ==
    <<"0", "1", "2", "3", "4", "5", "6", "7", "8", "9",
      "a", "b", "c", "d", "e", "f">>

RECURSIVE DecNat(_)
DecNat(n) == IF n < 10 THEN <<Digit[n + 1]>>
             ELSE DecNat(n \div 10) \o <<Digit[(n % 10) + 1]>>

\* Display of an integer: decimal digits, "-" in front when negative.
Dec(n) == IF n < 0 THEN <<"-">> \o DecNat(0 - n) ELSE DecNat(n)

RECURSIVE HexNat(_)
HexNat(n) == IF n < 16 THEN <<HexDigit[n + 1]>>
             ELSE HexNat(n \div 16) \o <<HexDigit[(n % 16) + 1]>>

\* The order of String: by character code (the UTF-8 bytes of ASCII text).
RECURSIVE Less(_, _)
Less(a, b) ==
    IF b = << >> THEN FALSE
    ELSE IF a = << >> THEN TRUE
    ELSE IF Head(a) = Head(b) THEN Less(Tail(a), Tail(b))
    ELSE CharCode(Head(a)) < CharCode(Head(b))

\* Debug of a character inside a str ({:?}).
DebugChar(c) ==
    LET code == CharCode(c)
    IN  CASE c = "\"" -> <<"\\", "\"">>
          [] c = "\\" -> <<"\\", "\\">>
          [] c = "\n" -> <<"\\", "n">>
          [] c = "\r" -> <<"\\", "r">>
          [] c = "\t" -> <<"\\", "t">>
          [] code = 0 -> <<"\\", "0">>
          [] code # 0 /\ (code < 32 \/ code = 127)
                /\ c \notin {"\n", "\r", "\t"} ->
               \* "\\u{"
               <<"\\", "u", "{">> \o HexNat(code) \o <<"}">>
          [] OTHER -> <<c>>

RECURSIVE DebugChars(_)
DebugChars(s) ==
    IF s = << >> THEN << >> ELSE DebugChar(Head(s)) \o DebugChars(Tail(s))

\* Debug of a str: the escaped characters between double quotes.
DebugStr(s) == <<"\"">> \o DebugChars(s) \o <<"\"">>

----------------------------------------------------------------------------
(* JSON values and serde_json::Value *)

JNull == [t |-> "null"]

JBool(x) == [t |-> "bool", b |-> x]

JNum(x) == [t |-> "num", n |-> x]

JStr(x) == [t |-> "str", s |-> x]

JArr(x) == [t |-> "arr", a |-> x]

Entry(key, val) == [k |-> key, v |-> val]

\* An object as written: its entries in textual order.
WObj(entries) == [t |-> "obj", o |-> entries]

\* Map::insert: the value of a key already there is replaced, a new key
\* goes to its place in key order.
RECURSIVE Map_insert(_, _, _)
Map_insert(map, key, val) ==
    IF map = << >> THEN <<Entry(key, val)>>
    ELSE IF Head(map).k = key THEN <<Entry(key, val)>> \o Tail(map)
    ELSE IF Less(key, Head(map).k) THEN <<Entry(key, val)>> \o map
    ELSE <<Head(map)>> \o Map_insert(Tail(map), key, val)

\* The map built from entries inserted in order.
RECURSIVE Map_from(_)
Map_from(entries) ==
    IF entries = << >> THEN << >>
    ELSE LET e == entries[Len(entries)]
         IN  Map_insert(Map_from(SubSeq(entries, 1, Len(entries) - 1)),
                        e.k, e.v)

\* Value::Object
JObj(entries) == [t |-> "obj", o |-> Map_from(entries)]

\* Deserialize of serde_json::Value: the written value with every object
\* collected into a map.
RECURSIVE ToValue(_)
ToValue(w) ==
    CASE w.t = "arr" -> JArr([i \in 1..Len(w.a) |-> ToValue(w.a[i])])
      [] w.t = "obj" ->
           JObj([i \in 1..Len(w.o) |-> Entry(w.o[i].k, ToValue(w.o[i].v))])
      [] OTHER -> w

\* JSON string escaping of one character.
EscapeChar(c) ==
    LET code == CharCode(c)
    IN  CASE c = "\"" -> <<"\\", "\"">>
          [] c = "\\" -> <<"\\", "\\">>
          [] code = 8 -> <<"\\", "b">>
          [] c = "\t" -> <<"\\", "t">>
          [] c = "\n" -> <<"\\", "n">>
          [] c = "\f" -> <<"\\", "f">>
          [] c = "\r" -> <<"\\", "r">>
          [] code < 32 /\ code # 8 /\ c \notin {"\t", "\n", "\f", "\r"} ->
               \* "\\u00"
               <<"\\", "u", "0", "0">>
               \o <<HexDigit[(code \div 16) + 1], HexDigit[(code % 16) + 1]>>
          [] OTHER -> <<c>>

RECURSIVE Escape(_)
Escape(s) ==
    IF s = << >> THEN << >> ELSE EscapeChar(Head(s)) \o Escape(Tail(s))

Quote(s) == <<"\"">> \o Escape(s) \o <<"\"">>

\* Display of a serde_json::Value, and the text of a written value: compact
\* JSON, the entries of an object in the order they are held.
RECURSIVE Value_fmt(_)
RECURSIVE Join_fmt(_, _)
Value_fmt(val) ==
    \* "null"
    CASE val.t = "null" -> <<"n", "u", "l", "l">>
      \* "true", "false"
      [] val.t = "bool" -> (IF val.b THEN <<"t", "r", "u", "e">> ELSE <<"f", "a", "l", "s", "e">>)
      [] val.t = "num"  -> Dec(val.n)
      [] val.t = "str"  -> Quote(val.s)
      [] val.t = "arr"  -> <<"[">> \o Join_fmt(val.a, FALSE) \o <<"]">>
      [] val.t = "obj"  -> <<"{">> \o Join_fmt(val.o, TRUE) \o <<"}">>
Join_fmt(items, keyed) ==
    IF items = << >> THEN << >>
    ELSE LET h == Head(items)
             one == IF keyed THEN Quote(h.k) \o <<":">> \o Value_fmt(h.v)
                    ELSE Value_fmt(h)
         IN  IF Len(items) = 1 THEN one
             ELSE one \o <<",">> \o Join_fmt(Tail(items), keyed)

----------------------------------------------------------------------------
(* reqwest::StatusCode *)

canonical_reason(status) ==
    CASE status = 100 ->
           \* "Continue"
           Some(<<"C", "o", "n", "t", "i", "n", "u", "e">>)
      [] status = 101 ->
           \* "Switching Protocols"
           Some(<<"S", "w", "i", "t", "c", "h", "i", "n", "g", " ", "P",
                  "r", "o", "t", "o", "c", "o", "l", "s">>)
      [] status = 102 ->
           \* "Processing"
           Some(<<"P", "r", "o", "c", "e", "s", "s", "i", "n", "g">>)
      [] status = 103 ->
           \* "Early Hints"
           Some(<<"E", "a", "r", "l", "y", " ", "H", "i", "n", "t", "s">>)
      [] status = 200 ->
           Some(<<"O", "K">>)
      [] status = 201 ->
           \* "Created"
           Some(<<"C", "r", "e", "a", "t", "e", "d">>)
      [] status = 202 ->
           \* "Accepted"
           Some(<<"A", "c", "c", "e", "p", "t", "e", "d">>)
      [] status = 203 ->
           \* "Non Authoritative Information"
           Some(<<"N", "o", "n", " ", "A", "u", "t", "h", "o", "r", "i",
                  "t", "a", "t", "i", "v", "e", " ", "I", "n", "f", "o", "r",
                  "m", "a", "t", "i", "o", "n">>)
      [] status = 204 ->
           \* "No Content"
           Some(<<"N", "o", " ", "C", "o", "n", "t", "e", "n", "t">>)
      [] status = 205 ->
           \* "Reset Content"
           Some(<<"R", "e", "s", "e", "t", " ", "C", "o", "n", "t", "e",
                  "n", "t">>)
      [] status = 206 ->
           \* "Partial Content"
           Some(<<"P", "a", "r", "t", "i", "a", "l", " ", "C", "o", "n",
                  "t", "e", "n", "t">>)
      [] status = 207 ->
           \* "Multi-Status"
           Some(<<"M", "u", "l", "t", "i", "-", "S", "t", "a", "t", "u", "s">>)
      [] status = 208 ->
           \* "Already Reported"
           Some(<<"A", "l", "r", "e", "a", "d", "y", " ", "R", "e", "p",
                  "o", "r", "t", "e", "d">>)
      [] status = 226 ->
           \* "IM Used"
           Some(<<"I", "M", " ", "U", "s", "e", "d">>)
      [] status = 300 ->
           \* "Multiple Choices"
           Some(<<"M", "u", "l", "t", "i", "p", "l", "e", " ", "C", "h",
                  "o", "i", "c", "e", "s">>)
      [] status = 301 ->
           \* "Moved Permanently"
           Some(<<"M", "o", "v", "e", "d", " ", "P", "e", "r", "m", "a",
                  "n", "e", "n", "t", "l", "y">>)
      [] status = 302 ->
           \* "Found"
           Some(<<"F", "o", "u", "n", "d">>)
      [] status = 303 ->
           \* "See Other"
           Some(<<"S", "e", "e", " ", "O", "t", "h", "e", "r">>)
      [] status = 304 ->
           \* "Not Modified"
           Some(<<"N", "o", "t", " ", "M", "o", "d", "i", "f", "i", "e", "d">>)
      [] status = 305 ->
           \* "Use Proxy"
           Some(<<"U", "s", "e", " ", "P", "r", "o", "x", "y">>)
      [] status = 307 ->
           \* "Temporary Redirect"
           Some(<<"T", "e", "m", "p", "o", "r", "a", "r", "y", " ", "R",
                  "e", "d", "i", "r", "e", "c", "t">>)
      [] status = 308 ->
           \* "Permanent Redirect"
           Some(<<"P", "e", "r", "m", "a", "n", "e", "n", "t", " ", "R",
                  "e", "d", "i", "r", "e", "c", "t">>)
      [] status = 400 ->
           \* "Bad Request"
           Some(<<"B", "a", "d", " ", "R", "e", "q", "u", "e", "s", "t">>)
      [] status = 401 ->
           \* "Unauthorized"
           Some(<<"U", "n", "a", "u", "t", "h", "o", "r", "i", "z", "e", "d">>)
      [] status = 402 ->
           \* "Payment Required"
           Some(<<"P", "a", "y", "m", "e", "n", "t", " ", "R", "e", "q",
                  "u", "i", "r", "e", "d">>)
      [] status = 403 ->
           \* "Forbidden"
           Some(<<"F", "o", "r", "b", "i", "d", "d", "e", "n">>)
      [] status = 404 ->
           \* "Not Found"
           Some(<<"N", "o", "t", " ", "F", "o", "u", "n", "d">>)
      [] status = 405 ->
           \* "Method Not Allowed"
           Some(<<"M", "e", "t", "h", "o", "d", " ", "N", "o", "t", " ",
                  "A", "l", "l", "o", "w", "e", "d">>)
      [] status = 406 ->
           \* "Not Acceptable"
           Some(<<"N", "o", "t", " ", "A", "c", "c", "e", "p", "t", "a",
                  "b", "l", "e">>)
      [] status = 407 ->
           \* "Proxy Authentication Required"
           Some(<<"P", "r", "o", "x", "y", " ", "A", "u", "t", "h", "e",
                  "n", "t", "i", "c", "a", "t", "i", "o", "n", " ", "R", "e",
                  "q", "u", "i", "r", "e", "d">>)
      [] status = 408 ->
           \* "Request Timeout"
           Some(<<"R", "e", "q", "u", "e", "s", "t", " ", "T", "i", "m",
                  "e", "o", "u", "t">>)
      [] status = 409 ->
           \* "Conflict"
           Some(<<"C", "o", "n", "f", "l", "i", "c", "t">>)
      [] status = 410 ->
           \* "Gone"
           Some(<<"G", "o", "n", "e">>)
      [] status = 411 ->
           \* "Length Required"
           Some(<<"L", "e", "n", "g", "t", "h", " ", "R", "e", "q", "u",
                  "i", "r", "e", "d">>)
      [] status = 412 ->
           \* "Precondition Failed"
           Some(<<"P", "r", "e", "c", "o", "n", "d", "i", "t", "i", "o",
                  "n", " ", "F", "a", "i", "l", "e", "d">>)
      [] status = 413 ->
           \* "Payload Too Large"
           Some(<<"P", "a", "y", "l", "o", "a", "d", " ", "T", "o", "o",
                  " ", "L", "a", "r", "g", "e">>)
      [] status = 414 ->
           \* "URI Too Long"
           Some(<<"U", "R", "I", " ", "T", "o", "o", " ", "L", "o", "n", "g">>)
      [] status = 415 ->
           \* "Unsupported Media Type"
           Some(<<"U", "n", "s", "u", "p", "p", "o", "r", "t", "e", "d",
                  " ", "M", "e", "d", "i", "a", " ", "T", "y", "p", "e">>)
      [] status = 416 ->
           \* "Range Not Satisfiable"
           Some(<<"R", "a", "n", "g", "e", " ", "N", "o", "t", " ", "S",
                  "a", "t", "i", "s", "f", "i", "a", "b", "l", "e">>)
      [] status = 417 ->
           \* "Expectation Failed"
           Some(<<"E", "x", "p", "e", "c", "t", "a", "t", "i", "o", "n",
                  " ", "F", "a", "i", "l", "e", "d">>)
      [] status = 418 ->
           \* "I'm a teapot"
           Some(<<"I", "'", "m", " ", "a", " ", "t", "e", "a", "p", "o", "t">>)
      [] status = 421 ->
           \* "Misdirected Request"
           Some(<<"M", "i", "s", "d", "i", "r", "e", "c", "t", "e", "d",
                  " ", "R", "e", "q", "u", "e", "s", "t">>)
      [] status = 422 ->
           \* "Unprocessable Entity"
           Some(<<"U", "n", "p", "r", "o", "c", "e", "s", "s", "a", "b",
                  "l", "e", " ", "E", "n", "t", "i", "t", "y">>)
      [] status = 423 ->
           \* "Locked"
           Some(<<"L", "o", "c", "k", "e", "d">>)
      [] status = 424 ->
           \* "Failed Dependency"
           Some(<<"F", "a", "i", "l", "e", "d", " ", "D", "e", "p", "e",
                  "n", "d", "e", "n", "c", "y">>)
      [] status = 425 ->
           \* "Too Early"
           Some(<<"T", "o", "o", " ", "E", "a", "r", "l", "y">>)
      [] status = 426 ->
           \* "Upgrade Required"
           Some(<<"U", "p", "g", "r", "a", "d", "e", " ", "R", "e", "q",
                  "u", "i", "r", "e", "d">>)
      [] status = 428 ->
           \* "Precondition Required"
           Some(<<"P", "r", "e", "c", "o", "n", "d", "i", "t", "i", "o",
                  "n", " ", "R", "e", "q", "u", "i", "r", "e", "d">>)
      [] status = 429 ->
           \* "Too Many Requests"
           Some(<<"T", "o", "o", " ", "M", "a", "n", "y", " ", "R", "e",
                  "q", "u", "e", "s", "t", "s">>)
      [] status = 431 ->
           \* "Request Header Fields Too Large"
           Some(<<"R", "e", "q", "u", "e", "s", "t", " ", "H", "e", "a",
                  "d", "e", "r", " ", "F", "i", "e", "l", "d", "s", " ", "T",
                  "o", "o", " ", "L", "a", "r", "g", "e">>)
      [] status = 451 ->
           \* "Unavailable For Legal Reasons"
           Some(<<"U", "n", "a", "v", "a", "i", "l", "a", "b", "l", "e",
                  " ", "F", "o", "r", " ", "L", "e", "g", "a", "l", " ", "R",
                  "e", "a", "s", "o", "n", "s">>)
      [] status = 500 ->
           \* "Internal Server Error"
           Some(<<"I", "n", "t", "e", "r", "n", "a", "l", " ", "S", "e",
                  "r", "v", "e", "r", " ", "E", "r", "r", "o", "r">>)
      [] status = 501 ->
           \* "Not Implemented"
           Some(<<"N", "o", "t", " ", "I", "m", "p", "l", "e", "m", "e",
                  "n", "t", "e", "d">>)
      [] status = 502 ->
           \* "Bad Gateway"
           Some(<<"B", "a", "d", " ", "G", "a", "t", "e", "w", "a", "y">>)
      [] status = 503 ->
           \* "Service Unavailable"
           Some(<<"S", "e", "r", "v", "i", "c", "e", " ", "U", "n", "a",
                  "v", "a", "i", "l", "a", "b", "l", "e">>)
      [] status = 504 ->
           \* "Gateway Timeout"
           Some(<<"G", "a", "t", "e", "w", "a", "y", " ", "T", "i", "m",
                  "e", "o", "u", "t">>)
      [] status = 505 ->
           \* "HTTP Version Not Supported"
           Some(<<"H", "T", "T", "P", " ", "V", "e", "r", "s", "i", "o",
                  "n", " ", "N", "o", "t", " ", "S", "u", "p", "p", "o", "r",
                  "t", "e", "d">>)
      [] status = 506 ->
           \* "Variant Also Negotiates"
           Some(<<"V", "a", "r", "i", "a", "n", "t", " ", "A", "l", "s",
                  "o", " ", "N", "e", "g", "o", "t", "i", "a", "t", "e", "s">>)
      [] status = 507 ->
           \* "Insufficient Storage"
           Some(<<"I", "n", "s", "u", "f", "f", "i", "c", "i", "e", "n",
                  "t", " ", "S", "t", "o", "r", "a", "g", "e">>)
      [] status = 508 ->
           \* "Loop Detected"
           Some(<<"L", "o", "o", "p", " ", "D", "e", "t", "e", "c", "t",
                  "e", "d">>)
      [] status = 510 ->
           \* "Not Extended"
           Some(<<"N", "o", "t", " ", "E", "x", "t", "e", "n", "d", "e", "d">>)
      [] status = 511 ->
           \* "Network Authentication Required"
           Some(<<"N", "e", "t", "w", "o", "r", "k", " ", "A", "u", "t",
                  "h", "e", "n", "t", "i", "c", "a", "t", "i", "o", "n", " ",
                  "R", "e", "q", "u", "i", "r", "e", "d">>)
      [] OTHER -> None

\* Display of a StatusCode: the number, a space, the canonical reason.
StatusCode_fmt(status) ==
    Dec(status) \o <<" ">> \o
    (IF canonical_reason(status).some THEN canonical_reason(status).v
     \* "<unknown status code>"
     ELSE <<"<", "u", "n", "k", "n", "o", "w", "n", " ", "s", "t", "a",
            "t", "u", "s", " ", "c", "o", "d", "e", ">">>)

----------------------------------------------------------------------------
(* struct SupabaseHTTPError *)

SupabaseHTTPError(c, ec, m, ie, im, eid) ==
    [code |-> c, error_code |-> ec, message |-> m,
     internal_error |-> ie, internal_message |-> im, error_id |-> eid]

\* Variant: the internal error written before the internal message.
SupabaseHTTPError_fmt_swapped(p) ==
    \* "Status Code "
    LET f0 == <<"S", "t", "a", "t", "u", "s", " ", "C", "o", "d", "e", " ">> \o Dec(p.code)
        f1 == IF p.error_code.some
              THEN f0 \o <<" ", "(">> \o p.error_code.v \o <<")">> ELSE f0
        f2 == IF p.error_id.some
              \* " [Error ID: "
              THEN f1 \o <<" ", "[", "E", "r", "r", "o", "r", " ", "I",
                           "D", ":", " ">> \o p.error_id.v \o <<"]">>
              ELSE f1
        f3 == IF p.internal_error.some
              \* "\nInternal error: "
              THEN f2 \o <<"\n", "I", "n", "t", "e", "r", "n", "a", "l",
                           " ", "e", "r", "r", "o", "r", ":", " ">>
                      \o Value_fmt(p.internal_error.v)
              ELSE f2
        f4 == IF p.internal_message.some
              \* "\nInternal message: "
              THEN f3 \o <<"\n", "I", "n", "t", "e", "r", "n", "a", "l",
                           " ", "m", "e", "s", "s", "a", "g", "e", ":", " ">>
                      \o Value_fmt(p.internal_message.v)
              ELSE f3
    \* "\nMessage: "
    IN  f4 \o <<"\n", "M", "e", "s", "s", "a", "g", "e", ":", " ">> \o p.message

\* impl Display for SupabaseHTTPError: the writes in program order.
SupabaseHTTPError_fmt(p) ==
    \* "Status Code "
    LET f0 == <<"S", "t", "a", "t", "u", "s", " ", "C", "o", "d", "e", " ">> \o Dec(p.code)
        f1 == IF p.error_code.some
              THEN f0 \o <<" ", "(">> \o p.error_code.v \o <<")">> ELSE f0
        f2 == IF p.error_id.some
              \* " [Error ID: "
              THEN f1 \o <<" ", "[", "E", "r", "r", "o", "r", " ", "I",
                           "D", ":", " ">> \o p.error_id.v \o <<"]">>
              ELSE f1
        f3 == IF p.internal_message.some
              \* "\nInternal message: "
              THEN f2 \o <<"\n", "I", "n", "t", "e", "r", "n", "a", "l",
                           " ", "m", "e", "s", "s", "a", "g", "e", ":", " ">>
                      \o Value_fmt(p.internal_message.v)
              ELSE f2
        f4 == IF p.internal_error.some
              \* "\nInternal error: "
              THEN f3 \o <<"\n", "I", "n", "t", "e", "r", "n", "a", "l",
                           " ", "e", "r", "r", "o", "r", ":", " ">>
                      \o Value_fmt(p.internal_error.v)
              ELSE f3
    \* "\nMessage: "
    IN  f4 \o <<"\n", "M", "e", "s", "s", "a", "g", "e", ":", " ">> \o p.message

----------------------------------------------------------------------------
(* Result<T, E> and the foreign error types *)

Ok(x) == [ok |-> TRUE, v |-> x]

Err(x) == [ok |-> FALSE, e |-> x]

\* A foreign error value: the type it belongs to and its own message.
ForeignError(kind, msg) == [kind |-> kind, msg |-> msg]

\* A serde_json::Error raised after column characters of the text.
JsonError(msg, column) ==
    ForeignError("serde_json::Error",
                 \* " at line 1 column "
                 msg \o <<" ", "a", "t", " ", "l", "i", "n", "e", " ", "1",
                          " ", "c", "o", "l", "u", "m", "n", " ">> \o Dec(column))

----------------------------------------------------------------------------
(* #[derive(Serialize)] for SupabaseHTTPError *)

K_code == <<"c", "o", "d", "e">>

K_error_code == <<"e", "r", "r", "o", "r", "_", "c", "o", "d", "e">>

K_msg == <<"m", "s", "g">>

K_internal_error == <<"i", "n", "t", "e", "r", "n", "a", "l", "_", "e",
                      "r", "r", "o", "r">>

K_internal_message == <<"i", "n", "t", "e", "r", "n", "a", "l", "_", "m",
                        "e", "s", "s", "a", "g", "e">>

K_error_id == <<"e", "r", "r", "o", "r", "_", "i", "d">>

\* An entry when the option holds a value.
OptEntry(key, opt) == IF opt.some THEN <<Entry(key, opt.v)>> ELSE << >>

\* Variant: without skip_serializing_if, None is written as null.
SkipNever(key, opt, val) == <<Entry(key, val)>>

\* skip_serializing_if = "Option::is_none": no entry for an absent field.
SkipIfNone(key, opt, val) == IF opt.some THEN <<Entry(key, val)>> ELSE << >>

\* Variant: without #[serde(rename = "msg")].
serialize_unrenamed(p) ==
    WObj(<<Entry(K_code, JNum(p.code))>>
         \o OptEntry(K_error_code,
                     IF p.error_code.some
                     THEN Some(JStr(p.error_code.v)) ELSE None)
         \* "message"
         \o <<Entry(<<"m", "e", "s", "s", "a", "g", "e">>, JStr(p.message))>>
         \o OptEntry(K_internal_error, p.internal_error)
         \o OptEntry(K_internal_message, p.internal_message)
         \o OptEntry(K_error_id,
                     IF p.error_id.some
                     THEN Some(JStr(p.error_id.v)) ELSE None))

\* The object written by serialize_struct: the fields in declaration order.
serialize(p) ==
    WObj(<<Entry(K_code, JNum(p.code))>>
         \o SkipIfNone(K_error_code, p.error_code,
                       IF p.error_code.some
                       THEN JStr(p.error_code.v) ELSE JNull)
         \o <<Entry(K_msg, JStr(p.message))>>
         \o SkipIfNone(K_internal_error, p.internal_error,
                       IF p.internal_error.some
                       THEN p.internal_error.v ELSE JNull)
         \o SkipIfNone(K_internal_message, p.internal_message,
                       IF p.internal_message.some
                       THEN p.internal_message.v ELSE JNull)
         \o SkipIfNone(K_error_id, p.error_id,
                       IF p.error_id.some THEN JStr(p.error_id.v) ELSE JNull))

----------------------------------------------------------------------------
(* #[derive(Deserialize)] for SupabaseHTTPError *)

\* The fields by their wire names, in declaration order.
FieldOrder ==
    <<K_code, K_error_code, K_msg, K_internal_error, K_internal_message,
      K_error_id>>

FieldKeys == {FieldOrder[i] : i \in 1..Len(FieldOrder)}

\* What an unexpected value is called in "invalid type".
Unexpected(val) ==
    \* "null"
    CASE val.t = "null" -> <<"n", "u", "l", "l">>
      [] val.t = "bool" ->
           \* "boolean U+0060"
           <<"b", "o", "o", "l", "e", "a", "n", " ", "U+0060">> \o Value_fmt(val) \o <<"U+0060">>
      [] val.t = "num" ->
           \* "integer U+0060"
           <<"i", "n", "t", "e", "g", "e", "r", " ", "U+0060">> \o Dec(val.n) \o <<"U+0060">>
      \* "string "
      [] val.t = "str" -> <<"s", "t", "r", "i", "n", "g", " ">> \o DebugStr(val.s)
      \* "sequence"
      [] val.t = "arr" -> <<"s", "e", "q", "u", "e", "n", "c", "e">>
      \* "map"
      [] val.t = "obj" -> <<"m", "a", "p">>

\* The characters of a value read before its type is refused: the whole
\* scalar, nothing of an array or an object.
Consumed(val) ==
    IF val.t \in {"arr", "obj"} THEN 0 ELSE Len(Value_fmt(val))

\* The error for the value val that starts after pos characters.
InvalidType(val, expected, pos) ==
    \* "invalid type: "
    Err(JsonError(<<"i", "n", "v", "a", "l", "i", "d", " ", "t", "y", "p",
                    "e", ":", " ">> \o Unexpected(val)
                    \* ", expected "
                    \o <<",", " ", "e", "x", "p", "e", "c", "t", "e", "d",
                         " ">> \o expected,
                  pos + Consumed(val)))

\* Deserialize one field value, which starts after pos characters, at the
\* field's declared type.
de_field(key, val, pos) ==
    CASE key = K_code ->
           IF val.t = "num" THEN Ok(val.n)
           \* "i32"
           ELSE InvalidType(val, <<"i", "3", "2">>, pos)
      [] key = K_msg ->
           IF val.t = "str" THEN Ok(val.s)
           \* "a string"
           ELSE InvalidType(val, <<"a", " ", "s", "t", "r", "i", "n", "g">>, pos)
      [] key \in {K_error_code, K_error_id} ->
           IF val.t = "null" THEN Ok(None)
           ELSE IF val.t = "str" THEN Ok(Some(val.s))
           \* "a string"
           ELSE InvalidType(val, <<"a", " ", "s", "t", "r", "i", "n", "g">>, pos)
      [] key \in {K_internal_error, K_internal_message} ->
           IF val.t = "null" THEN Ok(None) ELSE Ok(Some(ToValue(val)))

\* No field read yet.
NoFields == [key \in FieldKeys |-> None]

\* Variant: msg with #[serde(default)].
build_defaulting(acc, pos) ==
    IF ~acc[K_code].some
    \* "missing field U+0060codeU+0060"
    THEN Err(JsonError(<<"m", "i", "s", "s", "i", "n", "g", " ", "f", "i",
                         "e", "l", "d", " ", "U+0060", "c", "o", "d", "e",
                         "U+0060">>, pos))
    ELSE Ok(SupabaseHTTPError(
                acc[K_code].v,
                IF acc[K_error_code].some THEN acc[K_error_code].v ELSE None,
                IF acc[K_msg].some THEN acc[K_msg].v ELSE << >>,
                IF acc[K_internal_error].some
                THEN acc[K_internal_error].v ELSE None,
                IF acc[K_internal_message].some
                THEN acc[K_internal_message].v ELSE None,
                IF acc[K_error_id].some THEN acc[K_error_id].v ELSE None))

\* After the last entry, pos characters read: a required field never read
\* is an error, an optional one is None.
build(acc, pos) ==
    IF ~acc[K_code].some
    \* "missing field U+0060codeU+0060"
    THEN Err(JsonError(<<"m", "i", "s", "s", "i", "n", "g", " ", "f", "i",
                         "e", "l", "d", " ", "U+0060", "c", "o", "d", "e",
                         "U+0060">>, pos))
    ELSE IF ~acc[K_msg].some
    \* "missing field U+0060msgU+0060"
    THEN Err(JsonError(<<"m", "i", "s", "s", "i", "n", "g", " ", "f", "i",
                         "e", "l", "d", " ", "U+0060", "m", "s", "g",
                         "U+0060">>, pos))
    ELSE Ok(SupabaseHTTPError(
                acc[K_code].v,
                IF acc[K_error_code].some THEN acc[K_error_code].v ELSE None,
                acc[K_msg].v,
                IF acc[K_internal_error].some
                THEN acc[K_internal_error].v ELSE None,
                IF acc[K_internal_message].some
                THEN acc[K_internal_message].v ELSE None,
                IF acc[K_error_id].some THEN acc[K_error_id].v ELSE None))

\* Variant: with #[serde(deny_unknown_fields)].
RECURSIVE visit_map_deny_unknown(_, _, _, _)
visit_map_deny_unknown(entries, acc, pos, first) ==
    IF entries = << >> THEN build(acc, pos + 1)
    ELSE LET key == Head(entries).k
             val == Head(entries).v
             keyEnd == pos + (IF first THEN 0 ELSE 1) + Len(Quote(key))
             valEnd == keyEnd + 1 + Len(Value_fmt(val))
         IN  IF key \notin FieldKeys
             \* "unknown field U+0060"
             THEN Err(JsonError(<<"u", "n", "k", "n", "o", "w", "n", " ",
                                  "f", "i", "e", "l", "d", " ", "U+0060">> \o key \o <<"U+0060">>,
                                keyEnd))
             ELSE IF acc[key].some
             \* "duplicate field U+0060"
             THEN Err(JsonError(<<"d", "u", "p", "l", "i", "c", "a", "t",
                                  "e", " ", "f", "i", "e", "l", "d", " ",
                                  "U+0060">> \o key \o <<"U+0060">>,
                                keyEnd))
             ELSE LET r == de_field(key, val, keyEnd + 1)
                  IN  IF r.ok
                      THEN visit_map_deny_unknown(
                               Tail(entries), [acc EXCEPT ![key] = Some(r.v)],
                               valEnd, FALSE)
                      ELSE r

\* The generated visit_map, after pos characters of the text ("{" is the
\* first): entries in order, unknown keys ignored, a key seen twice is an
\* error, a value of the wrong type is an error; "}" ends the object.
RECURSIVE visit_map(_, _, _, _)
visit_map(entries, acc, pos, first) ==
    IF entries = << >> THEN build(acc, pos + 1)
    ELSE LET key == Head(entries).k
             val == Head(entries).v
             keyEnd == pos + (IF first THEN 0 ELSE 1) + Len(Quote(key))
             valEnd == keyEnd + 1 + Len(Value_fmt(val))
         IN  IF key \notin FieldKeys
             THEN visit_map(Tail(entries), acc, valEnd, FALSE)
             ELSE IF acc[key].some
             \* "duplicate field U+0060"
             THEN Err(JsonError(<<"d", "u", "p", "l", "i", "c", "a", "t",
                                  "e", " ", "f", "i", "e", "l", "d", " ",
                                  "U+0060">> \o key \o <<"U+0060">>,
                                keyEnd))
             ELSE LET r == de_field(key, val, keyEnd + 1)
                  IN  IF r.ok
                      THEN visit_map(Tail(entries),
                                     [acc EXCEPT ![key] = Some(r.v)],
                                     valEnd, FALSE)
                      ELSE r

\* The generated visit_seq, after pos characters of the text ("[" is the
\* first): the elements are the fields by position, all six are required,
\* and a seventh is an error of the parser.
RECURSIVE visit_seq(_, _, _, _)
visit_seq(elems, index, acc, pos) ==
    IF index = Len(FieldOrder)
    THEN IF elems = << >> THEN build(acc, pos + 1)
         \* "trailing characters"
         ELSE Err(JsonError(<<"t", "r", "a", "i", "l", "i", "n", "g", " ",
                              "c", "h", "a", "r", "a", "c", "t", "e", "r",
                              "s">>, pos + 2))
    ELSE IF elems = << >>
    \* "invalid length "
    THEN Err(JsonError(<<"i", "n", "v", "a", "l", "i", "d", " ", "l", "e",
                         "n", "g", "t", "h", " ">> \o Dec(index)
                         \* ", expected struct SupabaseHTTPError with "
                         \o <<",", " ", "e", "x", "p", "e", "c", "t", "e",
                              "d", " ", "s", "t", "r", "u", "c", "t", " ",
                              "S", "u", "p", "a", "b", "a", "s", "e", "H",
                              "T", "T", "P", "E", "r", "r", "o", "r", " ",
                              "w", "i", "t", "h", " ">>
                         \* "6 elements"
                         \o <<"6", " ", "e", "l", "e", "m", "e", "n", "t",
                              "s">>,
                       pos + 1))
    ELSE LET key == FieldOrder[index + 1]
             start == pos + (IF index = 0 THEN 0 ELSE 1)
             r == de_field(key, Head(elems), start)
         IN  IF r.ok
             THEN visit_seq(Tail(elems), index + 1,
                            [acc EXCEPT ![key] = Some(r.v)],
                            start + Len(Value_fmt(Head(elems))))
             ELSE r

\* SupabaseHTTPError::deserialize on the text of the written value w.
deserialize(w) ==
    CASE w.t = "obj" -> visit_map(w.o, NoFields, 1, TRUE)
      [] w.t = "arr" -> visit_seq(w.a, 0, NoFields, 1)
      \* "struct SupabaseHTTPError"
      [] OTHER -> InvalidType(w, <<"s", "t", "r", "u", "c", "t", " ", "S",
                                   "u", "p", "a", "b", "a", "s", "e", "H",
                                   "T", "T", "P", "E", "r", "r", "o", "r">>, 0)

----------------------------------------------------------------------------
(* enum Error *)

UnitVariants ==
    {"AlreadySignedUp", "WrongCredentials", "UserNotFound",
     "NotAuthenticated", "MissingRefreshToken", "WrongToken",
     "InternalError", "ParseUrlError"}

FromVariants ==
    {"NetworkError", "ParseError", "InvalidHeaderValue",
     "InvalidEnvironmentVariable"}

Unit(variant) == [variant |-> variant]

Wrapping(variant, source) == [variant |-> variant, source |-> source]

Supabase(p) == [variant |-> "Supabase", payload |-> p]

AuthError(status, message) ==
    [variant |-> "AuthError", status |-> status, message |-> message]

\* Variant: only the kind of the foreign error is kept.
Error_from_lossy(source) ==
    Wrapping(CASE source.kind = "reqwest::Error" -> "NetworkError"
               [] source.kind = "serde_json::Error" -> "ParseError"
               [] source.kind = "reqwest::header::InvalidHeaderValue" ->
                    "InvalidHeaderValue"
               [] source.kind = "env::VarError" ->
                    "InvalidEnvironmentVariable",
             ForeignError(source.kind, << >>))

\* The #[from] conversions, one per foreign type.
Error_from(source) ==
    CASE source.kind = "reqwest::Error" -> Wrapping("NetworkError", source)
      [] source.kind = "serde_json::Error" -> Wrapping("ParseError", source)
      [] source.kind = "reqwest::header::InvalidHeaderValue" ->
           Wrapping("InvalidHeaderValue", source)
      [] source.kind = "env::VarError" ->
           Wrapping("InvalidEnvironmentVariable", source)

\* std::error::Error::source: the #[from] field, None for the other variants.
Error_source(e) ==
    IF e.variant \in FromVariants THEN Some(e.source) ELSE None

\* Variant: the literal of WrongToken copied from WrongCredentials.
Unit_fmt_copied(variant) ==
    \* "User Already Exists"
    CASE variant = "AlreadySignedUp" -> <<"U", "s", "e", "r", " ", "A",
                                          "l", "r", "e", "a", "d", "y", " ",
                                          "E", "x", "i", "s", "t", "s">>
      \* "Invalid Credentials"
      [] variant = "WrongCredentials" -> <<"I", "n", "v", "a", "l", "i",
                                          "d", " ", "C", "r", "e", "d", "e",
                                          "n", "t", "i", "a", "l", "s">>
      \* "User Not Found"
      [] variant = "UserNotFound" -> <<"U", "s", "e", "r", " ", "N", "o",
                                       "t", " ", "F", "o", "u", "n", "d">>
      [] variant = "NotAuthenticated" ->
           \* "Supabase Client not Authenticated"
           <<"S", "u", "p", "a", "b", "a", "s", "e", " ", "C", "l", "i",
             "e", "n", "t", " ", "n", "o", "t", " ", "A", "u", "t", "h", "e",
             "n", "t", "i", "c", "a", "t", "e", "d">>
      \* "Missing Refresh Token"
      [] variant = "MissingRefreshToken" -> <<"M", "i", "s", "s", "i", "n",
                                          "g", " ", "R", "e", "f", "r", "e",
                                          "s", "h", " ", "T", "o", "k", "e",
                                          "n">>
      \* "Invalid Credentials"
      [] variant = "WrongToken" -> <<"I", "n", "v", "a", "l", "i", "d",
                                     " ", "C", "r", "e", "d", "e", "n", "t",
                                     "i", "a", "l", "s">>
      \* "Internal Error"
      [] variant = "InternalError" -> <<"I", "n", "t", "e", "r", "n", "a",
                                        "l", " ", "E", "r", "r", "o", "r">>
      \* "Failed to parse URL"
      [] variant = "ParseUrlError" -> <<"F", "a", "i", "l", "e", "d", " ",
                                        "t", "o", " ", "p", "a", "r", "s",
                                        "e", " ", "U", "R", "L">>

\* #[error("...")] of the variants without a field.
Unit_fmt(variant) ==
    \* "User Already Exists"
    CASE variant = "AlreadySignedUp" -> <<"U", "s", "e", "r", " ", "A",
                                          "l", "r", "e", "a", "d", "y", " ",
                                          "E", "x", "i", "s", "t", "s">>
      \* "Invalid Credentials"
      [] variant = "WrongCredentials" -> <<"I", "n", "v", "a", "l", "i",
                                          "d", " ", "C", "r", "e", "d", "e",
                                          "n", "t", "i", "a", "l", "s">>
      \* "User Not Found"
      [] variant = "UserNotFound" -> <<"U", "s", "e", "r", " ", "N", "o",
                                       "t", " ", "F", "o", "u", "n", "d">>
      [] variant = "NotAuthenticated" ->
           \* "Supabase Client not Authenticated"
           <<"S", "u", "p", "a", "b", "a", "s", "e", " ", "C", "l", "i",
             "e", "n", "t", " ", "n", "o", "t", " ", "A", "u", "t", "h", "e",
             "n", "t", "i", "c", "a", "t", "e", "d">>
      \* "Missing Refresh Token"
      [] variant = "MissingRefreshToken" -> <<"M", "i", "s", "s", "i", "n",
                                          "g", " ", "R", "e", "f", "r", "e",
                                          "s", "h", " ", "T", "o", "k", "e",
                                          "n">>
      \* "JWT Is Invalid"
      [] variant = "WrongToken" -> <<"J", "W", "T", " ", "I", "s", " ",
                                     "I", "n", "v", "a", "l", "i", "d">>
      \* "Internal Error"
      [] variant = "InternalError" -> <<"I", "n", "t", "e", "r", "n", "a",
                                        "l", " ", "E", "r", "r", "o", "r">>
      \* "Failed to parse URL"
      [] variant = "ParseUrlError" -> <<"F", "a", "i", "l", "e", "d", " ",
                                        "t", "o", " ", "p", "a", "r", "s",
                                        "e", " ", "U", "R", "L">>

\* Variant: the source interpolated into the message.
Wrapping_fmt_interpolated(variant, source) ==
    \* "Network Error"
    (CASE variant = "NetworkError" -> <<"N", "e", "t", "w", "o", "r", "k",
                                        " ", "E", "r", "r", "o", "r">>
       \* "Failed to Parse"
       [] variant = "ParseError" -> <<"F", "a", "i", "l", "e", "d", " ",
                                      "t", "o", " ", "P", "a", "r", "s", "e">>
       \* "Header Value is Invalid"
       [] variant = "InvalidHeaderValue" -> <<"H", "e", "a", "d", "e", "r",
                                          " ", "V", "a", "l", "u", "e", " ",
                                          "i", "s", " ", "I", "n", "v", "a",
                                          "l", "i", "d">>
       [] variant = "InvalidEnvironmentVariable" ->
            \* "Environment Variable Unreadable"
            <<"E", "n", "v", "i", "r", "o", "n", "m", "e", "n", "t", " ",
              "V", "a", "r", "i", "a", "b", "l", "e", " ", "U", "n", "r",
              "e", "a", "d", "a", "b", "l", "e">>)
    \o <<":", " ">> \o source.msg

\* #[error("...")] of the #[from] variants: the source is not interpolated.
Wrapping_fmt(variant, source) ==
    \* "Network Error"
    CASE variant = "NetworkError" -> <<"N", "e", "t", "w", "o", "r", "k",
                                       " ", "E", "r", "r", "o", "r">>
      \* "Failed to Parse"
      [] variant = "ParseError" -> <<"F", "a", "i", "l", "e", "d", " ",
                                     "t", "o", " ", "P", "a", "r", "s", "e">>
      \* "Header Value is Invalid"
      [] variant = "InvalidHeaderValue" -> <<"H", "e", "a", "d", "e", "r",
                                          " ", "V", "a", "l", "u", "e", " ",
                                          "i", "s", " ", "I", "n", "v", "a",
                                          "l", "i", "d">>
      [] variant = "InvalidEnvironmentVariable" ->
           \* "Environment Variable Unreadable"
           <<"E", "n", "v", "i", "r", "o", "n", "m", "e", "n", "t", " ",
             "V", "a", "r", "i", "a", "b", "l", "e", " ", "U", "n", "r", "e",
             "a", "d", "a", "b", "l", "e">>

\* Variant: a prefix in front of the payload.
Supabase_fmt_prefixed(p) ==
    \* "Supabase Error: "
    <<"S", "u", "p", "a", "b", "a", "s", "e", " ", "E", "r", "r", "o", "r",
      ":", " ">> \o SupabaseHTTPError_fmt(p)

\* #[error("{0}")]: the Display of the payload and nothing else.
Supabase_fmt(p) == SupabaseHTTPError_fmt(p)

\* Variant: the two placeholders exchanged.
AuthError_fmt_swapped(status, message) ==
    \* "Error: "
    <<"E", "r", "r", "o", "r", ":", " ">> \o message \o <<":", " ">> \o StatusCode_fmt(status)

\* #[error("Error: {status}: {message}")]
AuthError_fmt(status, message) ==
    \* "Error: "
    <<"E", "r", "r", "o", "r", ":", " ">> \o StatusCode_fmt(status) \o <<":", " ">> \o message

\* impl Display for Error, as derived by thiserror.
Error_fmt(e) ==
    CASE e.variant \in UnitVariants -> Unit_fmt(e.variant)
      [] e.variant \in FromVariants -> Wrapping_fmt(e.variant, e.source)
      [] e.variant = "Supabase" -> Supabase_fmt(e.payload)
      [] e.variant = "AuthError" -> AuthError_fmt(e.status, e.message)

----------------------------------------------------------------------------
(* Inputs *)

S_ec == <<"e", "c">>

S_eid == <<"e", "i", "d">>

S_im == <<"i", "m">>

S_ie == <<"i", "e">>

S_oops == <<"o", "o", "p", "s">>

S_invalid_grant == <<"i", "n", "v", "a", "l", "i", "d", "_", "g", "r", "a",
                     "n", "t">>

S_bad_request == <<"B", "a", "d", " ", "r", "e", "q", "u", "e", "s", "t">>

S_not_found == <<"n", "o", "t", " ", "f", "o", "u", "n", "d">>

\* A string with characters that JSON escapes.
S_special == <<"a", "\"", "b", "\\", "\n">>

\* A string with a control character that has no short escape.
S_control == <<"U+0008", "U+001F", "U+0060">>

S_extra == <<"e", "x", "t", "r", "a">>

Atoms == {JNull, JBool(TRUE), JNum(0 - 7), JStr(S_im), JStr(S_special)}

RECURSIVE Values(_)
Values(d) ==
    IF d = 0 THEN Atoms
    ELSE LET inner == Values(d - 1)
         IN  Atoms
             \cup {JArr(<< >>), JObj(<< >>),
                   JArr(<<JNull, JStr(S_ie)>>),
                   JArr(<<JStr(S_control)>>),
                   JObj(<<Entry(S_ec, JNum(1)), Entry(S_special, JNull)>>)}
             \cup {JArr(<<x>>) : x \in inner}
             \cup {JObj(<<Entry(S_eid, x)>>) : x \in inner}

Opt(S) == {None} \cup {Some(x) : x \in S}

\* The two payloads of the rendering examples.
Example1 ==
    SupabaseHTTPError(400, Some(S_invalid_grant), S_bad_request,
                      None, None, None)

Example2 ==
    SupabaseHTTPError(400, Some(S_ec), S_oops,
                      Some(JStr(S_ie)), Some(JStr(S_im)), Some(S_eid))

Payloads ==
    {SupabaseHTTPError(c, ec, m, ie, im, eid) :
        c \in {0 - 1, 0, 500}, ec \in Opt({S_ec}), m \in {S_oops, S_special},
        ie \in Opt(Values(MaxDepth)), im \in Opt(Atoms), eid \in Opt({S_eid})}
    \cup {Example1, Example2}

\* A written object whose keys are neither in order nor all different.
W_unordered ==
    WObj(<<Entry(S_ie, JNum(1)), Entry(S_ec, JNum(2)), Entry(S_ec, JNum(3))>>)

Bodies ==
    {OptEntry(K_code, c) \o OptEntry(K_error_code, ec) \o OptEntry(K_msg, m)
       \o OptEntry(K_internal_error, ie) \o OptEntry(K_internal_message, im)
       \o OptEntry(K_error_id, eid) :
        c \in Opt({JNum(500), JStr(S_oops)}),
        ec \in Opt({JStr(S_ec), JNull, JNum(5)}),
        m \in Opt({JStr(S_oops), JNum(1)}),
        ie \in Opt({JNull, JStr(S_ie), JArr(<<JNum(1)>>), W_unordered}),
        im \in Opt({JStr(S_im)}),
        eid \in Opt({JStr(S_eid), JNull})}

Reverse(s) == [i \in 1..Len(s) |-> s[Len(s) + 1 - i]]

\* The elements of a body written as an array.
Positional ==
    <<JNum(500), JStr(S_ec), JStr(S_oops), W_unordered, JStr(S_im), JNull>>

\* Response bodies: objects with the fields in either order, possibly with
\* keys outside the field set, possibly with a key repeated; arrays; and
\* values that are neither.
WireValues ==
    {WObj(b) : b \in Bodies}
    \cup {WObj(Reverse(b)) : b \in Bodies}
    \cup {WObj(<<Entry(S_extra, WObj(<<Entry(K_code, JNull)>>))>> \o b
                 \o <<Entry(S_special, JNum(1))>>) : b \in Bodies}
    \cup {WObj(b \o <<Entry(K_code, JNum(500))>>) : b \in Bodies}
    \cup {JArr(SubSeq(Positional, 1, n)) : n \in 0..Len(Positional)}
    \cup {JArr(Positional \o <<JNum(1)>>),
          JArr(<<JNum(500), JNum(5)>>),
          JArr(<<JArr(<< >>)>>),
          JNull, JBool(TRUE), JNum(5), JStr(S_special)}

ForeignKinds ==
    {"reqwest::Error", "serde_json::Error",
     "reqwest::header::InvalidHeaderValue", "env::VarError"}

ForeignErrors ==
    {ForeignError(kind, msg) :
        \* "timed out", "not present"
        kind \in ForeignKinds, msg \in {<<"t", "i", "m", "e", "d", " ",
                                          "o", "u", "t">>, <<"n", "o", "t", " ", "p", "r",
                                          "e", "s", "e", "n", "t">>}}

Statuses == {100, 200, 201, 400, 401, 403, 404, 418, 422, 429, 500, 599, 999}

Errors ==
    {Unit(variant) : variant \in UnitVariants}
    \cup {AuthError(status, m) :
            status \in Statuses, m \in {S_not_found, S_special}}

----------------------------------------------------------------------------
(* The state machine: one input is given, the operations are applied to it *)

Init ==
    /\ \/ self \in Opt(Payloads) \ {None}
          /\ wire = None /\ foreign = None /\ err = None
       \/ wire \in Opt(WireValues) \ {None}
          /\ self = None /\ foreign = None /\ err = None
       \/ foreign \in Opt(ForeignErrors) \ {None}
          /\ self = None /\ wire = None /\ err = None
       \/ err \in Opt(Errors) \ {None}
          /\ self = None /\ wire = None /\ foreign = None
    /\ parsed = None
    /\ cause = None
    /\ text = None
    /\ last = "new"

\* serde: self.serialize(serializer)
Serialize ==
    /\ self.some
    /\ wire' = Some(serialize(self.v))
    /\ last' = "serialize"
    /\ UNCHANGED <<self, parsed, foreign, err, cause, text>>

\* serde: SupabaseHTTPError::deserialize(deserializer)
Deserialize ==
    /\ wire.some
    /\ parsed' = Some(deserialize(wire.v))
    /\ last' = "deserialize"
    /\ UNCHANGED <<self, wire, foreign, err, cause, text>>

\* The ? operator on a failed deserialization: Error::from(serde_json::Error)
Propagate ==
    /\ parsed.some
    /\ ~parsed.v.ok
    /\ foreign' = Some(parsed.v.e)
    /\ err' = Some(Error_from(parsed.v.e))
    /\ last' = "from"
    /\ UNCHANGED <<self, wire, parsed, cause, text>>

\* Error::from(foreign error)
From ==
    /\ foreign.some
    /\ err' = Some(Error_from(foreign.v))
    /\ last' = "from"
    /\ UNCHANGED <<self, wire, parsed, foreign, cause, text>>

\* Error::Supabase(payload)
Wrap ==
    /\ self.some
    /\ err' = Some(Supabase(self.v))
    /\ last' = "wrap"
    /\ UNCHANGED <<self, wire, parsed, foreign, cause, text>>

\* self.to_string() on the payload
Display ==
    /\ self.some
    /\ text' = Some(SupabaseHTTPError_fmt(self.v))
    /\ last' = "payload.fmt"
    /\ UNCHANGED <<self, wire, parsed, foreign, err, cause>>

\* err.to_string()
ErrorDisplay ==
    /\ err.some
    /\ text' = Some(Error_fmt(err.v))
    /\ last' = "error.fmt"
    /\ UNCHANGED <<self, wire, parsed, foreign, err, cause>>

\* err.source()
Source ==
    /\ err.some
    /\ cause' = Some(Error_source(err.v))
    /\ last' = "source"
    /\ UNCHANGED <<self, wire, parsed, foreign, err, text>>

Next ==
    \/ Serialize
    \/ Deserialize
    \/ Propagate
    \/ From
    \/ Wrap
    \/ Display
    \/ ErrorDisplay
    \/ Source

Spec == Init /\ [][Next]_vars

----------------------------------------------------------------------------
(* Properties *)

\* The six segments of the payload rendering, in order, with show giving
\* the text of an internal value.
Segments(p, show(_)) ==
    \* "Status Code "
    <<"S", "t", "a", "t", "u", "s", " ", "C", "o", "d", "e", " ">> \o Dec(p.code)
    \o (IF p.error_code.some
        THEN <<" ", "(">> \o p.error_code.v \o <<")">> ELSE << >>)
    \o (IF p.error_id.some
        \* " [Error ID: "
        THEN <<" ", "[", "E", "r", "r", "o", "r", " ", "I", "D", ":", " ">> \o p.error_id.v \o <<"]">> ELSE << >>)
    \o (IF p.internal_message.some
        \* "\nInternal message: "
        THEN <<"\n", "I", "n", "t", "e", "r", "n", "a", "l", " ", "m", "e",
               "s", "s", "a", "g", "e", ":", " ">> \o show(p.internal_message.v)
        ELSE << >>)
    \o (IF p.internal_error.some
        \* "\nInternal error: "
        THEN <<"\n", "I", "n", "t", "e", "r", "n", "a", "l", " ", "e", "r",
               "r", "o", "r", ":", " ">> \o show(p.internal_error.v)
        ELSE << >>)
    \* "\nMessage: "
    \o <<"\n", "M", "e", "s", "s", "a", "g", "e", ":", " ">> \o p.message

\* The content of a value as it was given: a string without JSON quoting.
AsGiven(val) == IF val.t = "str" THEN val.s ELSE Value_fmt(val)

Rendered == self.some /\ text.some /\ last = "payload.fmt"

\* C1 as stated: the payload renders as the six segments in order, each
\* optional value substituted as given (internal_message = "im" gives the
\* segment "\nInternal message: im").
C1_AsStated == Rendered => text.v = Segments(self.v, AsGiven)

\* C1 amended: the payload renders as the six segments in order, where
\* error_code, error_id and message are substituted verbatim and
\* internal_message and internal_error are substituted as their compact JSON
\* text, so that a string value appears in double quotes with JSON escapes.
C1_Rendering ==
    Rendered =>
        /\ text.v = Segments(self.v, Value_fmt)
        /\ self.v = Example1 =>
             Str(text.v) =
               "Status Code 400 (invalid_grant)\nMessage: Bad request"
        /\ self.v = Example2 =>
             Str(text.v) =
               "Status Code 400 (ec) [Error ID: eid]"
               \o "\nInternal message: \"im\""
               \o "\nInternal error: \"ie\""
               \o "\nMessage: oops"

C1_Witness ==
    /\ Rendered
    /\ self.v = Example2
    /\ text.v # Segments(self.v, AsGiven)

ErrorRendered(variants) ==
    err.some /\ text.some /\ last = "error.fmt" /\ err.v.variant \in variants

\* C2 as stated: AuthError{status, message} renders as "Error: ", the status
\* code number, ": " and the message.
C2_AsStated ==
    ErrorRendered({"AuthError"}) =>
        \* "Error: "
        text.v = <<"E", "r", "r", "o", "r", ":", " ">> \o Dec(err.v.status) \o <<":", " ">> \o err.v.message

\* C2 amended: AuthError{status, message} renders as "Error: ", the status
\* code number, a space, the canonical reason phrase of the status (or
\* "<unknown status code>" when it has none), ": " and the message;
\* AuthError{404, "not found"} renders as "Error: 404 Not Found: not found".
C2_StatusWithReason ==
    ErrorRendered({"AuthError"}) =>
        \* "Error: "
        /\ text.v = <<"E", "r", "r", "o", "r", ":", " ">> \o Dec(err.v.status) \o <<" ">>
                    \o (IF canonical_reason(err.v.status).some
                        THEN canonical_reason(err.v.status).v
                        \* "<unknown status code>"
                        ELSE <<"<", "u", "n", "k", "n", "o", "w", "n", " ",
                               "s", "t", "a", "t", "u", "s", " ", "c", "o",
                               "d", "e", ">">>)
                    \o <<":", " ">> \o err.v.message
        /\ err.v = AuthError(404, S_not_found) =>
             Str(text.v) = "Error: 404 Not Found: not found"
        /\ err.v = AuthError(403, S_not_found) =>
             Str(text.v) = "Error: 403 Forbidden: not found"
        /\ err.v = AuthError(599, S_not_found) =>
             Str(text.v) = "Error: 599 <unknown status code>: not found"

C2_Witness ==
    /\ ErrorRendered({"AuthError"})
    /\ err.v = AuthError(404, S_not_found)

ExpectedVariant(kind) ==
    CASE kind = "reqwest::Error" -> "NetworkError"
      [] kind = "serde_json::Error" -> "ParseError"
      [] kind = "reqwest::header::InvalidHeaderValue" -> "InvalidHeaderValue"
      [] kind = "env::VarError" -> "InvalidEnvironmentVariable"

\* C3: lifting a foreign error gives the variant of its kind, and the cause
\* read back from the result is the original error, kind and message.
C3_LosslessLift ==
    /\ (foreign.some /\ err.some) =>
          /\ err.v.variant = ExpectedVariant(foreign.v.kind)
          /\ err.v.source = foreign.v
    /\ (foreign.some /\ err.some /\ cause.some) => cause.v = Some(foreign.v)

C3_Witness ==
    /\ foreign.some /\ err.some /\ cause.some
    /\ foreign.v.kind = "reqwest::Error"
    /\ last = "source"

AllPresent(p) ==
    /\ p.error_code.some
    /\ p.error_id.some
    /\ p.internal_error.some
    /\ p.internal_message.some

RoundTripped == self.some /\ wire.some /\ parsed.some

\* C4 as stated: a payload with all optional fields present, the internal
\* fields any JSON values, is equal to itself after serialize, deserialize.
C4_AsStated ==
    (RoundTripped /\ AllPresent(self.v)) => parsed.v = Ok(self.v)

\* C4 amended: a payload with all optional fields present, the internal
\* fields any JSON values other than null, is equal to itself after
\* serialize, deserialize.
C4_RoundTrip ==
    (/\ RoundTripped
     /\ AllPresent(self.v)
     /\ self.v.internal_error.v # JNull
     /\ self.v.internal_message.v # JNull) => parsed.v = Ok(self.v)

C4_Witness ==
    /\ RoundTripped
    /\ AllPresent(self.v)
    /\ self.v.internal_error.v.t = "obj"
    /\ Len(self.v.internal_error.v.o) = 2
    /\ self.v.internal_message.v.t = "str"
    /\ parsed.v.ok

Keys(entries) == {entries[i].k : i \in 1..Len(entries)}

ValuesAt(entries, key) ==
    {entries[i].v : i \in {j \in 1..Len(entries) : entries[j].k = key}}

Serialized == self.some /\ wire.some

\* C5: the serialized object has no key for an absent optional field, and
\* always has the code under "code" and the message under "msg".
C5_AbsentOmitted ==
    Serialized =>
        /\ wire.v.t = "obj"
        /\ ~self.v.error_code.some => K_error_code \notin Keys(wire.v.o)
        /\ ~self.v.internal_error.some =>
             K_internal_error \notin Keys(wire.v.o)
        /\ ~self.v.internal_message.some =>
             K_internal_message \notin Keys(wire.v.o)
        /\ ~self.v.error_id.some => K_error_id \notin Keys(wire.v.o)
        /\ ValuesAt(wire.v.o, K_code) = {JNum(self.v.code)}
        /\ ValuesAt(wire.v.o, K_msg) = {JStr(self.v.message)}
        \* "message"
        /\ <<"m", "e", "s", "s", "a", "g", "e">> \notin Keys(wire.v.o)

C5_Witness ==
    /\ Serialized
    /\ ~self.v.error_code.some
    /\ self.v.internal_error.some
    /\ ~self.v.error_id.some
    /\ last = "serialize"

\* An object was deserialized.
Deserialized == wire.some /\ parsed.some /\ wire.v.t = "obj"

OptionalKeys == {K_error_code, K_internal_error, K_internal_message, K_error_id}

FieldOf(p, key) ==
    CASE key = K_error_code -> p.error_code
      [] key = K_internal_error -> p.internal_error
      [] key = K_internal_message -> p.internal_message
      [] key = K_error_id -> p.error_id

ParseFailure(r) == ~r.ok /\ r.e.kind = "serde_json::Error"

MissingRequired(entries) ==
    K_code \notin Keys(entries) \/ K_msg \notin Keys(entries)

\* The successful outcome that C6 describes.
ParsedFrom(entries, r) ==
    /\ r.ok
    /\ ValuesAt(entries, K_msg) = {JStr(r.v.message)}
    /\ \A key \in OptionalKeys \ Keys(entries) : FieldOf(r.v, key) = None

\* C6 as stated: deserialization succeeds whenever "code" and "msg" are
\* present, and fails with a parse error when either is missing.
C6_AsStated ==
    Deserialized =>
        /\ ~MissingRequired(wire.v.o) => ParsedFrom(wire.v.o, parsed.v)
        /\ MissingRequired(wire.v.o) => ParseFailure(parsed.v)

Count(entries, key) ==
    Cardinality({i \in 1..Len(entries) : entries[i].k = key})

\* Every field key occurs at most once and holds a value of the field type.
WellTyped(entries) ==
    /\ \A key \in FieldKeys : Count(entries, key) <= 1
    /\ \A val \in ValuesAt(entries, K_code) : val.t = "num"
    /\ \A val \in ValuesAt(entries, K_msg) : val.t = "str"
    /\ \A val \in ValuesAt(entries, K_error_code) : val.t \in {"str", "null"}
    /\ \A val \in ValuesAt(entries, K_error_id) : val.t \in {"str", "null"}

\* C6 amended: deserialization succeeds whenever "code" and "msg" are
\* present, no field key is repeated, "code" is an integer, "msg" is a string
\* and error_code and error_id, when present, are strings or null; the
\* message is the value of "msg" and every optional field not in the object
\* is absent.  It fails with a parse error when "code" or "msg" is missing.
C6_Deserialize ==
    /\ Deserialized =>
          /\ (~MissingRequired(wire.v.o) /\ WellTyped(wire.v.o)) =>
                 ParsedFrom(wire.v.o, parsed.v)
          /\ MissingRequired(wire.v.o) => ParseFailure(parsed.v)
          /\ wire.v = WObj(<<Entry(K_code, JNum(500)),
                            Entry(K_msg, JStr(S_oops))>>)
               => parsed.v = Ok(SupabaseHTTPError(500, None, S_oops,
                                                    None, None, None))
          /\ wire.v = WObj(<<Entry(K_code, JNum(500))>>)
               => /\ ~parsed.v.ok
                  /\ parsed.v.e.msg =
                       \* "missing field U+0060msgU+0060 at line 1 column 12"
                       <<"m", "i", "s", "s", "i", "n", "g", " ", "f", "i",
                         "e", "l", "d", " ", "U+0060", "m", "s", "g",
                         "U+0060", " ", "a", "t", " ", "l", "i", "n", "e",
                         " ", "1", " ", "c", "o", "l", "u", "m", "n", " ",
                         "1", "2">>
    /\ (Deserialized /\ ~parsed.v.ok /\ err.some) =>
          err.v.variant = "ParseError"

C6_Witness ==
    /\ Deserialized
    /\ self = None
    /\ wire.v = WObj(<<Entry(K_code, JNum(500)), Entry(K_msg, JStr(S_oops))>>)
    /\ parsed.v.ok

\* C7: each variant without a field renders as its own fixed literal, and no
\* two of them render alike.
C7_UnitLiterals ==
    /\ ErrorRendered(UnitVariants) =>
          Str(text.v) =
            CASE err.v.variant = "AlreadySignedUp" -> "User Already Exists"
              [] err.v.variant = "WrongCredentials" -> "Invalid Credentials"
              [] err.v.variant = "UserNotFound" -> "User Not Found"
              [] err.v.variant = "NotAuthenticated" ->
                   "Supabase Client not Authenticated"
              [] err.v.variant = "MissingRefreshToken" ->
                   "Missing Refresh Token"
              [] err.v.variant = "WrongToken" -> "JWT Is Invalid"
              [] err.v.variant = "InternalError" -> "Internal Error"
              [] err.v.variant = "ParseUrlError" -> "Failed to parse URL"
    /\ ErrorRendered(UnitVariants) =>
          \A other \in UnitVariants \ {err.v.variant} :
              Error_fmt(Unit(other)) # text.v

C7_Witness == ErrorRendered({"WrongToken"})

\* C8: rendering Supabase(p) gives exactly the rendering of p.
C8_Transparent ==
    ErrorRendered({"Supabase"}) =>
        text.v = SupabaseHTTPError_fmt(err.v.payload)

C8_Witness ==
    /\ ErrorRendered({"Supabase"})
    /\ AllPresent(err.v.payload)

IsField(entry) == entry.k \in FieldKeys

HasExtra(entries) == Keys(entries) \ FieldKeys # {}

\* The object without the keys outside the field set.
Stripped(w) == WObj(SelectSeq(w.o, IsField))

\* C9 as stated: an object with keys outside the field set succeeds
\* whenever "code" and "msg" are present, and yields the payload of the
\* object without those keys.
C9_AsStated ==
    (Deserialized /\ HasExtra(wire.v.o)) =>
        /\ ~MissingRequired(wire.v.o) => parsed.v.ok
        /\ parsed.v.ok = deserialize(Stripped(wire.v)).ok
        /\ parsed.v.ok => parsed.v = deserialize(Stripped(wire.v))

\* C9 amended: an object with keys outside the field set is not rejected
\* for them: it succeeds exactly when the object without those keys does,
\* and then yields the same payload.
C9_ExtraIgnored ==
    (Deserialized /\ HasExtra(wire.v.o)) =>
        /\ parsed.v.ok = deserialize(Stripped(wire.v)).ok
        /\ parsed.v.ok => parsed.v = deserialize(Stripped(wire.v))

C9_Witness ==
    /\ Deserialized
    /\ HasExtra(wire.v.o)
    /\ parsed.v.ok
    /\ parsed.v.v.error_code.some

\* C10: a cause-wrapping variant renders as the fixed literal of the
\* variant, the same for every wrapped cause; the cause is read through
\* source().
C10_CauseIndependent ==
    ErrorRendered(FromVariants) =>
        /\ Str(text.v) =
             CASE err.v.variant = "NetworkError" -> "Network Error"
               [] err.v.variant = "ParseError" -> "Failed to Parse"
               [] err.v.variant = "InvalidHeaderValue" ->
                    "Header Value is Invalid"
               [] err.v.variant = "InvalidEnvironmentVariable" ->
                    "Environment Variable Unreadable"
        /\ \A other \in ForeignErrors :
               Error_fmt(Wrapping(err.v.variant, other)) = text.v
        /\ Error_source(err.v) = Some(err.v.source)

C10_Witness ==
    /\ ErrorRendered({"ParseError"})
    /\ Deserialized
    \* "missing field U+0060msgU+0060 at line 1 column 12"
    /\ err.v.source.msg = <<"m", "i", "s", "s", "i", "n", "g", " ", "f",
                            "i", "e", "l", "d", " ", "U+0060", "m", "s", "g",
                            "U+0060", " ", "a", "t", " ", "l", "i", "n", "e",
                            " ", "1", " ", "c", "o", "l", "u", "m", "n", " ",
                            "1", "2">>

=============================================================================
